---------------------------- MODULE Spec2Model ----------------------------
(***************************************************************************)
(* Dashboard aggregation and time-range analytics of src/main.py:          *)
(* _range_to_dates, agent_stats, agent_chart and agent_policies, over a    *)
(* read-only document store (policyapplications, policyissuances,          *)
(* paymentorders, products).                                               *)
(*                                                                         *)
(* Timestamps have second granularity: [year, month, day, sec] with sec    *)
(* the second of the day.  Identifiers are tagged values [t, v]: t = "str" *)
(* a raw string, t = "oid" a bson ObjectId whose hex string is v, and      *)
(* t = "none" Python's None (or a missing field).                          *)
(***************************************************************************)
EXTENDS Integers, Sequences, FiniteSets, TLC

VARIABLES
    now,          \* the wall clock read by pd.Timestamp.now()
    apps,         \* db['policyapplications'], in natural order
    issuances,    \* db['policyissuances'], in natural order
    payments,     \* db['paymentorders'], in natural order
    products,     \* db['products']
    mongo_client, \* the module global _mongo_client
    req,          \* the request handled last
    resp,         \* its response
    queries,      \* the find() calls it issued, per collection
    all_rows,     \* the local rows of agent_policies when it takes the page
    ret,          \* the value returned by the last direct _range_to_dates call
    constructed,  \* the number of MongoClient objects constructed so far
    threads       \* each pool thread's position in get_mongo_client

vars ==
    <<now, apps, issuances, payments, products, mongo_client, req, resp, queries,
      all_rows, ret, constructed, threads>>

store == <<apps, issuances, payments, products>>

-----------------------------------------------------------------------------
(* Bounds of the model *)

FirstYear == 2023
LastYear == 2024
MaxApps == 2
MaxIssuances == 2
MaxPayments == 2
MaxPage == 2
MaxLimit == 2
MaxFault == 2

-----------------------------------------------------------------------------
(* Timestamps *)

Ts(y, m, d, s) == [year |-> y, month |-> m, day |-> d, sec |-> s]

TsLE(a, b) ==
    \/ a.year < b.year
    \/ a.year = b.year /\ a.month < b.month
    \/ a.year = b.year /\ a.month = b.month /\ a.day < b.day
    \/ a.year = b.year /\ a.month = b.month /\ a.day = b.day /\ a.sec <= b.sec

IsLeap(y) == (y % 4 = 0 /\ y % 100 # 0) \/ y % 400 = 0

DaysInMonth(y, m) ==
    IF m = 2 THEN (IF IsLeap(y) THEN 29 ELSE 28)
    ELSE IF m \in {4, 6, 9, 11} THEN 30 ELSE 31

\* t - pd.Timedelta(days=n) / t - pd.DateOffset(days=n): n whole days back,
\* the time of day kept
RECURSIVE MinusDays(_, _)
MinusDays(t, n) ==
    IF n = 0 THEN t
    ELSE IF t.day > 1 THEN MinusDays([t EXCEPT !.day = t.day - 1], n - 1)
    ELSE IF t.month > 1
         THEN MinusDays([t EXCEPT !.month = t.month - 1,
                                  !.day = DaysInMonth(t.year, t.month - 1)], n - 1)
         ELSE MinusDays([t EXCEPT !.year = t.year - 1, !.month = 12, !.day = 31], n - 1)

\* t - pd.DateOffset(months=1): the same day of the previous month, clamped
\* to that month's length, the time of day kept
MinusOneMonth(t) ==
    LET y == IF t.month = 1 THEN t.year - 1 ELSE t.year
        m == IF t.month = 1 THEN 12 ELSE t.month - 1
        dim == DaysInMonth(y, m)
    IN  [t EXCEPT !.year = y, !.month = m,
                  !.day = IF t.day > dim THEN dim ELSE t.day]

\* Timestamp.replace(day=1)
ReplaceDay1(t) == [t EXCEPT !.day = 1]

\* Timestamp.normalize(): midnight of the same day
Normalize(t) == [t EXCEPT !.sec = 0]

\* pd.Timestamp.min (1677-09-21 00:12:43.145224193), nanoseconds dropped by
\* to_pydatetime()
TimestampMin == Ts(1677, 9, 21, 763)

FyStartMonth == 4

NoTs == Ts(0, 0, 0, 0)

Returned(s, e) == [exc |-> "", start |-> s, end |-> e]
Raised(x) == [exc |-> x, start |-> NoTs, end |-> NoTs]

\* datetime(year, month, 1): ValueError unless 1 <= month <= 12
DatetimeFirst(y, m, e) ==
    IF m \in 1..12 THEN Returned(Ts(y, m, 1, 0), e) ELSE Raised("ValueError")

\* _range_to_dates(range_key) when the clock reads t
_range_to_dates(range_key, t) ==
    LET q == ((t.month - 1) \div 3) + 1 IN
    CASE range_key = "1D" -> Returned(MinusDays(t, 1), t)
      [] range_key = "1W" -> Returned(MinusDays(t, 7), t)
      [] range_key = "1M" -> Returned(MinusOneMonth(t), t)
      [] range_key = "last_month" ->
            Returned(Normalize(MinusOneMonth(ReplaceDay1(t))),
                     MinusDays(ReplaceDay1(t), 1))
      [] range_key = "this_quarter" -> DatetimeFirst(t.year, 3 * (q - 1) + 1, t)
      [] range_key = "last_quarter" -> DatetimeFirst(t.year, 3 * (q - 2) + 1, t)
      [] range_key = "this_fy" ->
            IF t.month >= FyStartMonth
            THEN DatetimeFirst(t.year, FyStartMonth, t)
            ELSE DatetimeFirst(t.year - 1, FyStartMonth, t)
      [] range_key = "last_fy" ->
            IF t.month >= FyStartMonth
            THEN DatetimeFirst(t.year - 1, FyStartMonth, t)
            ELSE DatetimeFirst(t.year - 2, FyStartMonth, t)
      [] OTHER -> Returned(TimestampMin, t)

\* the keys advertised by meta_ranges, and one key nobody advertises
meta_ranges ==
    {"1D", "1W", "1M", "last_month", "this_quarter", "last_quarter",
     "this_fy", "last_fy", "all_time"}

RangeKeys == meta_ranges \cup {"bogus"}

-----------------------------------------------------------------------------
(* IEEE-754 binary64 arithmetic, as far as int(revenue/total*100) needs it. *)
(* A positive double is [m, e]: m its 53 significand bits, most significant *)
(* first (m[1] = 1), and e the binary exponent of m[1].                     *)

MantissaBits == 53

\* scale v up to n = v * 2^k with t <= n < 2t; e = -k is the quotient's exponent
RECURSIVE ScaleUp(_, _, _)
ScaleUp(v, t, e) == IF v >= t THEN [n |-> v, e |-> e] ELSE ScaleUp(2 * v, t, e - 1)

\* k >= 1 further quotient bits of r/t by long division, and the remainder
\* left (the bits are produced left to right; the halves only bound the depth
\* of the evaluation)
RECURSIVE DivBits(_, _, _)
DivBits(r, t, k) ==
    IF k = 1
    THEN LET b == IF 2 * r >= t THEN 1 ELSE 0
         IN  [bits |-> <<b>>, rem |-> 2 * r - b * t]
    ELSE LET hi == DivBits(r, t, k \div 2)
             lo == DivBits(hi.rem, t, k - (k \div 2))
         IN  [bits |-> hi.bits \o lo.bits, rem |-> lo.rem]

\* bits + 1, as [bits, carry]: the lowest 0 becomes 1, the 1s below it 0
IncBits(bits) ==
    LET n == Len(bits)
        zeros == {i \in 1..n : bits[i] = 0}
    IN  IF zeros = {} THEN [bits |-> [i \in 1..n |-> 0], carry |-> 1]
        ELSE LET j == CHOOSE i \in zeros : \A k \in zeros : k <= i
             IN  [bits |-> [i \in 1..n |-> IF i < j THEN bits[i]
                                           ELSE IF i = j THEN 1 ELSE 0],
                  carry |-> 0]

\* round to nearest, ties to even: m is the kept significand, up says the
\* discarded part is above half an ulp, tie that it is exactly half
RoundNearestEven(m, e, up, tie) ==
    IF up \/ (tie /\ m[Len(m)] = 1)
    THEN LET r == IncBits(m)
         IN  IF r.carry = 1
             THEN [m |-> <<1>> \o SubSeq(r.bits, 1, Len(m) - 1), e |-> e + 1]
             ELSE [m |-> r.bits, e |-> e]
    ELSE [m |-> m, e |-> e]

\* float(v) / float(t) for integers 0 < v <= t, correctly rounded
FloatDiv(v, t) ==
    LET s == ScaleUp(v, t, 0)
        d == DivBits(s.n - t, t, MantissaBits - 1)
    IN  RoundNearestEven(<<1>> \o d.bits, s.e, 2 * d.rem > t, 2 * d.rem = t)

\* the binary digits of a natural number, most significant first
RECURSIVE NatBits(_)
NatBits(n) == IF n = 0 THEN <<>> ELSE Append(NatBits(n \div 2), n % 2)

Reverse(seq) == [i \in 1..Len(seq) |-> seq[Len(seq) + 1 - i]]

\* lsb * k + carry for a small natural k and a bit sequence lsb given least
\* significant bit first: the low Len(lsb) bits of the result (least
\* significant first) and what is carried out above them
RECURSIVE MulCarry(_, _, _)
MulCarry(lsb, k, carry) ==
    IF Len(lsb) = 1
    THEN LET x == lsb[1] * k + carry
         IN  [bits |-> <<x % 2>>, carry |-> x \div 2]
    ELSE LET n == Len(lsb)
             lo == MulCarry(SubSeq(lsb, 1, n \div 2), k, carry)
             hi == MulCarry(SubSeq(lsb, (n \div 2) + 1, n), k, lo.carry)
         IN  [bits |-> lo.bits \o hi.bits, carry |-> hi.carry]

\* bits * k, most significant bit first
MulSmall(bits, k) ==
    LET r == MulCarry(Reverse(bits), k, 0) IN NatBits(r.carry) \o Reverse(r.bits)

\* x * k for a double x and a small positive integer k, correctly rounded
FloatMulSmall(x, k) ==
    LET p == MulSmall(x.m, k)
        extra == Len(p) - MantissaBits
        kept == SubSeq(p, 1, MantissaBits)
        guard == IF extra >= 1 THEN p[MantissaBits + 1] ELSE 0
        sticky == \E i \in (MantissaBits + 2)..Len(p) : p[i] = 1
    IN  RoundNearestEven(kept, x.e + extra, guard = 1 /\ sticky, guard = 1 /\ ~sticky)

\* the value of a bit sequence
RECURSIVE BitsNat(_)
BitsNat(bits) ==
    IF bits = <<>> THEN 0
    ELSE 2 * BitsNat(SubSeq(bits, 1, Len(bits) - 1)) + bits[Len(bits)]

\* int(x) for a positive double below 2^53: the integer part
FloatToInt(x) == IF x.e < 0 THEN 0 ELSE BitsNat(SubSeq(x.m, 1, x.e + 1))

\* int((revenue/total_revenue*100) if total_revenue else 0), for
\* 0 <= revenue <= total_revenue
Contribution(revenue, total_revenue) ==
    LET of[v \in {revenue}, t \in {total_revenue}] ==
            IF t = 0 \/ v = 0 THEN 0
            ELSE FloatToInt(FloatMulSmall(FloatDiv(v, t), 100))
    IN  of[revenue, total_revenue]

-----------------------------------------------------------------------------
(* Values of the document store *)

None == [t |-> "none", v |-> ""]
Str(s) == [t |-> "str", v |-> s]
Oid(h) == [t |-> "oid", v |-> h]

\* the strings ObjectId() accepts: 24 hexadecimal digits
HexStrings ==
    {"64b000000000000000000a01", "64b000000000000000000c01",
     "64b000000000000000000c02", "64b000000000000000000c03",
     "64b0000000000000000000f1", "64b0000000000000000000f2",
     "64b0000000000000000000f3"}

\* try_objectid(s): ObjectId(s), or s itself when ObjectId(s) raises
try_objectid(s) == IF s \in HexStrings THEN Oid(s) ELSE Str(s)

\* str(x) of a string or an ObjectId
PyStr(x) == x.v

\* Python truth of a field value: None and '' are false
Truthy(x) == x.t # "none" /\ ~(x.t = "str" /\ x.v = "")

\* amounts: k = "int" an integer n, "float" a double with integer part n,
\* "intstr" the decimal string of n, "floatstr" a string such as "12.5" with
\* integer part n, "bad" a string no number parses from, "none" None/missing
Amt(k, n) == [k |-> k, n |-> n]
IntAmt(n) == Amt("int", n)

\* a or 0
OrZero(a) ==
    IF a.k = "none" \/ (a.k \in {"int", "float"} /\ a.n = 0) THEN IntAmt(0) ELSE a

\* int(a): [ok, n], ok = FALSE when int() raises ValueError
PyInt(a) ==
    IF a.k \in {"int", "float", "intstr"} THEN [ok |-> TRUE, n |-> a.n]
    ELSE [ok |-> FALSE, n |-> 0]

\* int(float(a)): [ok, n]
PyIntFloat(a) ==
    IF a.k \in {"int", "float", "intstr", "floatstr"} THEN [ok |-> TRUE, n |-> a.n]
    ELSE [ok |-> FALSE, n |-> 0]

\* lines 516-522: int(amount or 0), else int(float(amount or 0)), else 0
RevenueAmount(a) ==
    IF PyInt(OrZero(a)).ok THEN PyInt(OrZero(a)).n
    ELSE IF PyIntFloat(OrZero(a)).ok THEN PyIntFloat(OrZero(a)).n
    ELSE 0

\* lines 541-544 and 662-665: int(amount or 0), else 0
BucketAmount(a) == IF PyInt(OrZero(a)).ok THEN PyInt(OrZero(a)).n ELSE 0

\* str.lower(), character by character; a string is a sequence of characters
UpperCase ==
    <<"A", "B", "C", "D", "E", "F", "G", "H", "I", "J", "K", "L", "M",
      "N", "O", "P", "Q", "R", "S", "T", "U", "V", "W", "X", "Y", "Z">>
LowerCase ==
    <<"a", "b", "c", "d", "e", "f", "g", "h", "i", "j", "k", "l", "m",
      "n", "o", "p", "q", "r", "s", "t", "u", "v", "w", "x", "y", "z">>

LowerChar(c) ==
    IF \E i \in 1..Len(UpperCase) : UpperCase[i] = c
    THEN LowerCase[CHOOSE i \in 1..Len(UpperCase) : UpperCase[i] = c]
    ELSE c

Lower(w) == [i \in 1..Len(w) |-> LowerChar(w[i])]

\* str(p.get('status', '')): '' when the field is missing, 'None' when null
StatusStr(st) ==
    IF st.t = "missing" THEN <<>>
    ELSE IF st.t = "none" THEN <<"N", "o", "n", "e">>
    ELSE st.v

W_paid == <<"p", "a", "i", "d">>
W_success == <<"s", "u", "c", "c", "e", "s", "s">>
W_captured == <<"c", "a", "p", "t", "u", "r", "e", "d">>
W_completed == <<"c", "o", "m", "p", "l", "e", "t", "e", "d">>
W_PAID == <<"P", "A", "I", "D">>
W_SUCCESS == <<"S", "U", "C", "C", "E", "S", "S">>
W_CAPTURED == <<"C", "A", "P", "T", "U", "R", "E", "D">>
W_COMPLETED == <<"C", "O", "M", "P", "L", "E", "T", "E", "D">>

ok_status ==
    {W_paid, W_success, W_captured, W_completed,
     W_PAID, W_SUCCESS, W_CAPTURED, W_COMPLETED}

\* StatusOk without .lower(): the status is compared as it is stored
StatusOkAsStored(p) == StatusStr(p.status) \in ok_status

\* str(p.get('status', '')).lower() in ok_status
StatusOk(p) == Lower(StatusStr(p.status)) \in ok_status

-----------------------------------------------------------------------------
(* The Mongo client *)

DATABASE_URL == "mongodb://db/test"

\* _mongo_client = None; a client is the number of its construction
NoClient == 0

\* MongoClient(DATABASE_URL, ...): one more object, made after made others
MongoClient(made) == made + 1

\* get_mongo_client() run without interruption: the client the call returns
\* (and leaves in _mongo_client) and how many were made, or RuntimeError
get_mongo_client(current, made) ==
    IF current = NoClient
    THEN IF DATABASE_URL = ""
         THEN [exc |-> "RuntimeError", client |-> current, made |-> made]
         ELSE [exc |-> "", client |-> MongoClient(made), made |-> made + 1]
    ELSE [exc |-> "", client |-> current, made |-> made]

\* The handlers are plain functions: the framework runs each request on a
\* thread of its pool, so calls of get_mongo_client() can overlap.  A
\* thread's position is the line of get_mongo_client() it is about to run.
MaxThreads == 2
Threads == 1..MaxThreads

\* a thread of the pool that has no request
Waiting == [pc |-> "waiting", client |-> NoClient, handle |-> NoClient]

\* a request arrives on thread t, whose handler calls get_mongo_client()
begin_request(t) ==
    /\ threads[t].pc = "waiting"
    /\ threads' = [threads EXCEPT ![t].pc = "line39"]
    /\ UNCHANGED <<now, apps, issuances, payments, products, mongo_client, req, resp,
                   queries, all_rows, ret, constructed>>

\* line 39: if _mongo_client is None
test_none(t) ==
    /\ threads[t].pc = "line39"
    /\ threads' = [threads EXCEPT ![t].pc = IF mongo_client = NoClient THEN "line40"
                                            ELSE "line43"]
    /\ UNCHANGED <<now, apps, issuances, payments, products, mongo_client, req, resp,
                   queries, all_rows, ret, constructed>>

\* lines 40-42: the right-hand side MongoClient(DATABASE_URL, ...), or
\* RuntimeError without DATABASE_URL
construct_client(t) ==
    /\ threads[t].pc = "line40"
    /\ IF DATABASE_URL = ""
       THEN /\ threads' = [threads EXCEPT ![t].pc = "raised"]
            /\ UNCHANGED constructed
       ELSE /\ threads' = [threads EXCEPT ![t].pc = "line42",
                                          ![t].client = MongoClient(constructed)]
            /\ constructed' = constructed + 1
    /\ UNCHANGED <<now, apps, issuances, payments, products, mongo_client, req, resp,
                   queries, all_rows, ret>>

\* line 42: the assignment to the global _mongo_client
store_global(t) ==
    /\ threads[t].pc = "line42"
    /\ mongo_client' = threads[t].client
    /\ threads' = [threads EXCEPT ![t].pc = "line43"]
    /\ UNCHANGED <<now, apps, issuances, payments, products, req, resp, queries,
                   all_rows, ret, constructed>>

\* line 43: return _mongo_client, the global as it is now
return_client(t) ==
    /\ threads[t].pc = "line43"
    /\ threads' = [threads EXCEPT ![t].pc = "returned", ![t].handle = mongo_client]
    /\ UNCHANGED <<now, apps, issuances, payments, products, mongo_client, req, resp,
                   queries, all_rows, ret, constructed>>

\* the request on thread t is over; the thread goes back to the pool
end_request(t) ==
    /\ threads[t].pc \in {"returned", "raised"}
    /\ threads' = [threads EXCEPT ![t] = Waiting]
    /\ UNCHANGED <<now, apps, issuances, payments, products, mongo_client, req, resp,
                   queries, all_rows, ret, constructed>>

-----------------------------------------------------------------------------
(* Queries.  fault names the query of the request that raises a store      *)
(* error: "none", "apps", "issuances", "payments".                         *)

\* find({'$or': [{'agentId': agent_id}, {'agentId': try_objectid(agent_id)}]})
FindAppsEither(agent_id) ==
    SelectSeq(apps, LAMBDA a : a.agentId = Str(agent_id)
                               \/ a.agentId = try_objectid(agent_id))

\* find({'agentId': agent_id})
FindAppsRaw(agent_id) == SelectSeq(apps, LAMBDA a : a.agentId = Str(agent_id))

AppIds(found) == [i \in 1..Len(found) |-> found[i]._id]

InSeq(x, seq) == \E i \in 1..Len(seq) : seq[i] = x

\* FindInWindow with a half-open window: '$lt' end instead of '$lte'
FindInHalfOpenWindow(coll, app_ids, start, end) ==
    SelectSeq(coll, LAMBDA r : /\ InSeq(r.applicationId, app_ids)
                               /\ TsLE(start, r.createdAt)
                               /\ TsLE(r.createdAt, end)
                               /\ r.createdAt # end)

\* find({'applicationId': {'$in': app_ids},
\*       'createdAt': {'$gte': start, '$lte': end}})
FindInWindow(coll, app_ids, start, end) ==
    SelectSeq(coll, LAMBDA r : /\ InSeq(r.applicationId, app_ids)
                               /\ TsLE(start, r.createdAt)
                               /\ TsLE(r.createdAt, end))

\* FindScoped without its guard: the query of lines 500 and 507 is run even
\* when there are no app_ids, constrained by createdAt alone
FindUnscoped(coll, app_ids, start, end) ==
    IF app_ids # <<>>
    THEN [rows |-> FindInWindow(coll, app_ids, start, end), issued |-> 1]
    ELSE [rows |-> SelectSeq(coll, LAMBDA r : TsLE(start, r.createdAt)
                                              /\ TsLE(r.createdAt, end)),
          issued |-> 1]

\* list(coll.find(q)) if app_ids else []: the records, and whether the query
\* was issued
FindScoped(coll, app_ids, start, end) ==
    IF app_ids # <<>>
    THEN [rows |-> FindInWindow(coll, app_ids, start, end), issued |-> 1]
    ELSE [rows |-> <<>>, issued |-> 0]

\* appid_to_product.get(app_id): str(productId) of the application whose
\* str(_id) is app_id, None when that is falsy or there is no such application
AppProduct(found, app_id) ==
    LET hits == {i \in 1..Len(found) : PyStr(found[i]._id) = app_id}
    IN  IF hits = {} THEN None
        ELSE LET a == found[CHOOSE i \in hits : \A j \in hits : j <= i]
             IN  IF Truthy(a.productId) THEN Str(PyStr(a.productId)) ELSE None

-----------------------------------------------------------------------------
(* Aggregation.  A dict of buckets is the sequence of its items in         *)
(* insertion order: [pid, sold, revenue].                                  *)

HasKey(buckets, pid) == \E i \in 1..Len(buckets) : buckets[i].pid = pid

\* buckets.setdefault(pid, {'sold': 0, 'revenue': 0})
SetDefault(buckets, pid) ==
    IF HasKey(buckets, pid) THEN buckets
    ELSE Append(buckets, [pid |-> pid, sold |-> 0, revenue |-> 0])

\* AddSold that marks the bucket as sold instead of counting: sold = 1
AddSoldOnce(buckets, pid) ==
    LET b == SetDefault(buckets, pid)
    IN  [i \in 1..Len(b) |-> IF b[i].pid = pid
                             THEN [b[i] EXCEPT !.sold = 1] ELSE b[i]]

AddSold(buckets, pid) ==
    LET b == SetDefault(buckets, pid)
    IN  [i \in 1..Len(b) |-> IF b[i].pid = pid
                             THEN [b[i] EXCEPT !.sold = @ + 1] ELSE b[i]]

AddRevenue(buckets, pid, amt) ==
    LET b == SetDefault(buckets, pid)
    IN  [i \in 1..Len(b) |-> IF b[i].pid = pid
                             THEN [b[i] EXCEPT !.revenue = @ + amt] ELSE b[i]]

\* the bucket key of an issuance: its own productId, else the application's,
\* else 'unknown'
IssuancePid(found, ins) ==
    LET own == ins.productId
        pid == IF Truthy(own) THEN own ELSE AppProduct(found, PyStr(ins.applicationId))
    IN  IF Truthy(pid) THEN PyStr(pid) ELSE "unknown"

\* the bucket key of a payment: the application's productId or 'unknown'
PaymentPid(found, p) ==
    LET pid == AppProduct(found, PyStr(p.applicationId))
    IN  IF Truthy(pid) THEN PyStr(pid) ELSE "unknown"

\* for ins in issuances: ... entry['sold'] += 1
RECURSIVE CountIssuances(_, _, _)
CountIssuances(buckets, found, iss) ==
    IF iss = <<>> THEN buckets
    ELSE CountIssuances(AddSold(buckets, IssuancePid(found, Head(iss))),
                        found, Tail(iss))

\* SumPayments with the bucket created before the status is tested
RECURSIVE SumPaymentsOfAnyStatus(_, _, _)
SumPaymentsOfAnyStatus(buckets, found, pays) ==
    IF pays = <<>> THEN buckets
    ELSE IF StatusOk(Head(pays))
         THEN SumPaymentsOfAnyStatus(AddRevenue(buckets, PaymentPid(found, Head(pays)),
                                                BucketAmount(Head(pays).amount)),
                                     found, Tail(pays))
         ELSE SumPaymentsOfAnyStatus(SetDefault(buckets, PaymentPid(found, Head(pays))),
                                     found, Tail(pays))

\* for p in payments: if status ok: ... [pid]['revenue'] += amt
RECURSIVE SumPayments(_, _, _)
SumPayments(buckets, found, pays) ==
    IF pays = <<>> THEN buckets
    ELSE IF StatusOk(Head(pays))
         THEN SumPayments(AddRevenue(buckets, PaymentPid(found, Head(pays)),
                                     BucketAmount(Head(pays).amount)),
                          found, Tail(pays))
         ELSE SumPayments(buckets, found, Tail(pays))

\* lines 513-523: revenue += amt over the payments with an ok status
RECURSIVE TotalRevenue(_)
TotalRevenue(pays) ==
    IF pays = <<>> THEN 0
    ELSE (IF StatusOk(Head(pays)) THEN RevenueAmount(Head(pays).amount) ELSE 0)
         + TotalRevenue(Tail(pays))

\* sum(v['revenue'] for v in buckets.values()) if buckets else 0
RECURSIVE SumRevenue(_)
SumRevenue(buckets) ==
    IF buckets = <<>> THEN 0 ELSE Head(buckets).revenue + SumRevenue(Tail(buckets))

-----------------------------------------------------------------------------
(* Name resolution (lines 554-573 and 668-687).  A fault [at, idx, both]   *)
(* with at = "products" makes the first find_one issued for the idx-th     *)
(* bucket raise, and with both also the second one.                        *)

\* prod_coll.find_one({'_id': lookup}): the name of the first product whose
\* _id equals lookup, None when there is none or it has no name
CatalogName(lookup) ==
    LET hits == {i \in 1..Len(products) : products[i]._id = lookup}
    IN  IF hits = {} THEN None
        ELSE products[CHOOSE i \in hits : \A j \in hits : i <= j].name

FaultsLookup(fault, buckets, i) ==
    fault.at = "products" /\ fault.idx = i /\ buckets[i].pid # "unknown"

\* ResolveNames without the 'else: prod_names[pid] = pid' of lines 568-569:
\* a product without a named record gets no name
ResolveNamesOrNone(buckets, fault) ==
    IF \E i \in 1..Len(buckets) : FaultsLookup(fault, buckets, i) /\ fault.both
    THEN [i \in 1..Len(buckets) |-> buckets[i].pid]
    ELSE [i \in 1..Len(buckets) |->
            LET pid == buckets[i].pid
                lookup == IF FaultsLookup(fault, buckets, i)
                          THEN Str(pid) ELSE try_objectid(pid)
                name == CatalogName(lookup)
            IN  IF pid # "unknown"
                THEN (IF Truthy(name) THEN name.v ELSE "")
                ELSE "Unknown"]

\* prod_names, as the sequence of names of the buckets
ResolveNames(buckets, fault) ==
    IF \E i \in 1..Len(buckets) : FaultsLookup(fault, buckets, i) /\ fault.both
    THEN [i \in 1..Len(buckets) |-> buckets[i].pid]
    ELSE [i \in 1..Len(buckets) |->
            LET pid == buckets[i].pid
                lookup == IF FaultsLookup(fault, buckets, i)
                          THEN Str(pid) ELSE try_objectid(pid)
                name == CatalogName(lookup)
            IN  IF pid # "unknown"
                THEN (IF Truthy(name) THEN name.v ELSE pid)
                ELSE "Unknown"]

-----------------------------------------------------------------------------
(* Rows: ranking and paging *)

\* one row per bucket, in the dict's order; revenue is the bucket's revenue
\* times scale (1 in agent_stats, 100 in agent_policies)
RowsOf(buckets, names, scale) ==
    LET total_revenue == SumRevenue(buckets)
    IN  [i \in 1..Len(buckets) |->
            [policyId |-> buckets[i].pid,
             policyName |-> names[i],
             sold |-> buckets[i].sold,
             revenue |-> buckets[i].revenue * scale,
             contribution |-> Contribution(buckets[i].revenue, total_revenue)]]

\* x.get(sortBy, 0)
RowKey(row, sortBy) ==
    CASE sortBy = "sold" -> row.sold
      [] sortBy = "revenue" -> row.revenue
      [] sortBy = "contribution" -> row.contribution
      [] OTHER -> 0

\* InsertStable that puts x before the rows of equal key: the order a
\* descending sort gets from reversing an ascending one
InsertBeforeEqual(done, x, sortBy, reverse) ==
    LET after == {i \in 1..Len(done) :
                    IF reverse THEN RowKey(done[i], sortBy) <= RowKey(x, sortBy)
                    ELSE RowKey(done[i], sortBy) >= RowKey(x, sortBy)}
        at == IF after = {} THEN Len(done) + 1
              ELSE CHOOSE i \in after : \A j \in after : i <= j
    IN  SubSeq(done, 1, at - 1) \o <<x>> \o SubSeq(done, at, Len(done))

\* where a stable sort puts x among the already sorted rows: before the first
\* row that must come strictly after it
InsertStable(done, x, sortBy, reverse) ==
    LET after == {i \in 1..Len(done) :
                    IF reverse THEN RowKey(done[i], sortBy) < RowKey(x, sortBy)
                    ELSE RowKey(done[i], sortBy) > RowKey(x, sortBy)}
        at == IF after = {} THEN Len(done) + 1
              ELSE CHOOSE i \in after : \A j \in after : i <= j
    IN  SubSeq(done, 1, at - 1) \o <<x>> \o SubSeq(done, at, Len(done))

\* sorted(rows, key=lambda x: x.get(sortBy, 0), reverse=reverse)
RECURSIVE Sorted(_, _, _)
Sorted(rows, sortBy, reverse) ==
    IF rows = <<>> THEN <<>>
    ELSE InsertStable(Sorted(SubSeq(rows, 1, Len(rows) - 1), sortBy, reverse),
                      rows[Len(rows)], sortBy, reverse)

Min(a, b) == IF a <= b THEN a ELSE b

\* Slice with an inclusive upper index: rows[start_i:start_i+limit+1]
SliceInclusive(rows, start_i, limit) ==
    SubSeq(rows, Min(start_i, Len(rows)) + 1, Min(start_i + limit + 1, Len(rows)))

\* rows[start_i:start_i+limit] for start_i >= 0 and limit >= 0
Slice(rows, start_i, limit) ==
    SubSeq(rows, Min(start_i, Len(rows)) + 1, Min(start_i + limit, Len(rows)))

-----------------------------------------------------------------------------
(* Responses.  A handler's outcome is [resp, queries]: the response, and   *)
(* what a test double of the store would have seen of the request: how     *)
(* many find() calls it issued on each collection, and the app_ids the     *)
(* application lookup gave it.  An exception no handler catches leaves the *)
(* framework's 500 response.                                               *)

Queries(a, i, p, app_ids) ==
    [policyapplications |-> a, policyissuances |-> i, paymentorders |-> p,
     app_ids |-> app_ids]

NoQueries == Queries(0, 0, 0, <<>>)

Unhandled(exc, q) == [resp |-> [status |-> 500, kind |-> "error", exc |-> exc], queries |-> q]

NoFault == [at |-> "none", idx |-> 0, both |-> FALSE]

StoreError == "PyMongoError"

\* the buckets both agent_stats (prod_count) and agent_policies (perf) build
BucketsOf(found, iss, pays) ==
    SumPayments(CountIssuances(<<>>, found, iss), found, pays)

\* agent_stats(agent_id, range), lines 480-599
stats_outcome(agent_id, range, fault) ==
    LET client == get_mongo_client(mongo_client, constructed)
        dates == _range_to_dates(range, now)
        found == FindAppsEither(agent_id)
        app_ids == AppIds(found)
        iss_found == FindScoped(issuances, app_ids, dates.start, dates.end)
        pay_found == FindScoped(payments, app_ids, dates.start, dates.end)
        iss == iss_found.rows
        pays == pay_found.rows
        revenue == TotalRevenue(pays)
        prod_count == BucketsOf(found, iss, pays)
        prod_names == ResolveNames(prod_count, fault)
        top_list == Sorted(RowsOf(prod_count, prod_names, 1), "sold", TRUE)
        \* for item in top_list: item['revenue'] = item['revenue'] * 100
        in_paise == [i \in 1..Len(top_list) |->
                        [top_list[i] EXCEPT !.revenue = @ * 100]]
        \* best is top_list[0], the same dict: best['revenue'] * 100 is
        \* stored into the first row too
        rows == [i \in 1..Len(in_paise) |->
                    IF i = 1 THEN [in_paise[i] EXCEPT !.revenue = @ * 100]
                    ELSE in_paise[i]]
    IN  IF client.exc # "" THEN Unhandled(client.exc, NoQueries)
        ELSE IF dates.exc # "" THEN Unhandled(dates.exc, NoQueries)
        ELSE IF fault.at = "apps" THEN Unhandled(StoreError, Queries(1, 0, 0, <<>>))
        ELSE IF fault.at = "issuances" /\ iss_found.issued = 1
             THEN Unhandled(StoreError, Queries(1, 1, 0, app_ids))
        ELSE IF fault.at = "payments" /\ pay_found.issued = 1
             THEN Unhandled(StoreError, Queries(1, iss_found.issued, 1, app_ids))
        ELSE [resp |-> [status |-> 200, kind |-> "stats",
                        policiesIssued |-> Len(iss),
                        revenue |-> revenue * 100,
                        bestSellingPolicy |-> IF rows = <<>> THEN <<>> ELSE <<rows[1]>>,
                        topPolicies |-> rows,
                        period |-> [from |-> dates.start, to |-> dates.end]],
              queries |-> Queries(1, iss_found.issued, pay_found.issued, app_ids)]

\* agent_policies up to line 698: the rows it ranks (none after the early
\* return of line 642), the queries issued, and the exception that ended it
policies_rows(agent_id, range, fault) ==
    LET client == get_mongo_client(mongo_client, constructed)
        dates == _range_to_dates(range, now)
        found == FindAppsEither(agent_id)
        app_ids == AppIds(found)
        iss == FindInWindow(issuances, app_ids, dates.start, dates.end)
        pays == FindInWindow(payments, app_ids, dates.start, dates.end)
        perf == BucketsOf(found, iss, pays)
        prod_names == ResolveNames(perf, fault)
    IN  IF client.exc # ""
        THEN [exc |-> client.exc, queries |-> NoQueries, rows |-> <<>>]
        ELSE IF dates.exc # ""
        THEN [exc |-> dates.exc, queries |-> NoQueries, rows |-> <<>>]
        ELSE IF fault.at = "apps"
        THEN [exc |-> StoreError, queries |-> Queries(1, 0, 0, <<>>), rows |-> <<>>]
        ELSE IF app_ids = <<>>
        THEN [exc |-> "", queries |-> Queries(1, 0, 0, app_ids), rows |-> <<>>]
        ELSE IF fault.at = "issuances"
        THEN [exc |-> StoreError, queries |-> Queries(1, 1, 0, app_ids), rows |-> <<>>]
        ELSE IF fault.at = "payments"
        THEN [exc |-> StoreError, queries |-> Queries(1, 1, 1, app_ids), rows |-> <<>>]
        ELSE [exc |-> "", queries |-> Queries(1, 1, 1, app_ids),
              rows |-> RowsOf(perf, prod_names, 100)]

\* agent_policies from line 699 (the early return of line 642 is the same
\* response, of no rows): sort, count, slice; rows is the local list the
\* slice is taken from
policies_outcome(ranked, page, limit, sortBy, order) ==
    IF ranked.exc # ""
    THEN [resp |-> Unhandled(ranked.exc, ranked.queries).resp,
          queries |-> ranked.queries, rows |-> <<>>]
    ELSE LET rows == IF sortBy \in {"sold", "revenue", "contribution"}
                     THEN Sorted(ranked.rows, sortBy, order = "desc")
                     ELSE ranked.rows
             start_i == (page - 1) * limit
         IN  [resp |-> [status |-> 200, kind |-> "policies",
                        data |-> Slice(rows, start_i, limit),
                        pagination |-> [page |-> page, limit |-> limit,
                                        total |-> Len(rows)]],
              queries |-> ranked.queries, rows |-> rows]

-----------------------------------------------------------------------------
(* The chart *)

NoArg == [t |-> "none", ts |-> NoTs]
IsoArg(ts) == [t |-> "iso", ts |-> ts]
BadArg == [t |-> "bad", ts |-> NoTs]

\* datetime.fromisoformat(s) of a query argument, ValueError when malformed
fromisoformat(arg) == IF arg.t = "iso" THEN Returned(arg.ts, arg.ts) ELSE Raised("ValueError")

DateOf(ts) == [ts EXCEPT !.sec = 0]

\* the dates of the rows, ascending, without duplicates
RECURSIVE Ascending(_)
Ascending(dates) ==
    IF dates = {} THEN <<>>
    ELSE LET first == CHOOSE d \in dates : \A e \in dates : TsLE(d, e)
         IN  <<first>> \o Ascending(dates \ {first})

RECURSIVE SumAmounts(_)
SumAmounts(iss) ==
    IF iss = <<>> THEN 0
    ELSE PyInt(OrZero(Head(iss).amount)).n + SumAmounts(Tail(iss))

\* df.groupby('date').agg({'sales': 'sum', 'revenue': 'sum'})
Series(iss) ==
    LET dates == Ascending({DateOf(iss[i].createdAt) : i \in 1..Len(iss)})
    IN  [k \in 1..Len(dates) |->
            LET that_day == SelectSeq(iss, LAMBDA r : DateOf(r.createdAt) = dates[k])
            IN  [date |-> dates[k], sales |-> Len(that_day),
                 revenue |-> SumAmounts(that_day)]]

\* agent_chart(agent_id, start, end, interval), lines 602-629
chart_outcome(agent_id, start, end, interval, fault) ==
    LET client == get_mongo_client(mongo_client, constructed)
        start_dt == IF start.t # "none" THEN fromisoformat(start)
                    ELSE _range_to_dates("1M", now)
        end_dt == IF end.t # "none" THEN fromisoformat(end)
                  ELSE _range_to_dates("1M", now)
        found == FindAppsRaw(agent_id)
        app_ids == AppIds(found)
        iss == FindInWindow(issuances, app_ids, start_dt.start, end_dt.end)
        empty == [status |-> 200, kind |-> "chart", series |-> <<>>,
                  meta |-> [interval |-> interval, points |-> 0]]
    IN  IF client.exc # "" THEN Unhandled(client.exc, NoQueries)
        ELSE IF start_dt.exc # "" THEN Unhandled(start_dt.exc, NoQueries)
        ELSE IF end_dt.exc # "" THEN Unhandled(end_dt.exc, NoQueries)
        ELSE IF fault.at = "apps" THEN Unhandled(StoreError, Queries(1, 0, 0, <<>>))
        ELSE IF app_ids = <<>> THEN [resp |-> empty, queries |-> Queries(1, 0, 0, app_ids)]
        ELSE IF fault.at = "issuances" THEN Unhandled(StoreError, Queries(1, 1, 0, app_ids))
        ELSE IF \E i \in 1..Len(iss) : ~PyInt(OrZero(iss[i].amount)).ok
             THEN Unhandled("ValueError", Queries(1, 1, 0, app_ids))
        ELSE IF iss = <<>> THEN [resp |-> empty, queries |-> Queries(1, 1, 0, app_ids)]
        ELSE [resp |-> [status |-> 200, kind |-> "chart", series |-> Series(iss),
                        meta |-> [interval |-> interval,
                                  points |-> Len(Series(iss))]],
              queries |-> Queries(1, 1, 0, app_ids)]

-----------------------------------------------------------------------------
(* The sales list *)

\* agent_sales(agent_id, page, limit), lines 707-718.  A row carries the
\* payment's createdAt as the store gave it, a datetime, which JSONResponse
\* cannot serialise: a page with a row raises TypeError
sales_outcome(agent_id, page, limit, fault) ==
    LET client == get_mongo_client(mongo_client, constructed)
        found == FindAppsRaw(agent_id)
        app_ids == AppIds(found)
        pays == SelectSeq(payments, LAMBDA p : InSeq(p.applicationId, app_ids))
        issued == IF app_ids # <<>> THEN 1 ELSE 0
        rows == [i \in 1..Len(pays) |->
                    [applicationId |-> PyStr(pays[i].applicationId),
                     amount |-> pays[i].amount, status |-> pays[i].status,
                     createdAt |-> pays[i].createdAt]]
        start_i == (page - 1) * limit
        data == Slice(rows, start_i, limit)
    IN  IF client.exc # "" THEN Unhandled(client.exc, NoQueries)
        ELSE IF fault.at = "apps" THEN Unhandled(StoreError, Queries(1, 0, 0, <<>>))
        ELSE IF fault.at = "payments" /\ issued = 1
             THEN Unhandled(StoreError, Queries(1, 0, 1, app_ids))
        ELSE IF data # <<>> THEN Unhandled("TypeError", Queries(1, 0, issued, app_ids))
        ELSE [resp |-> [status |-> 200, kind |-> "sales", data |-> data,
                        pagination |-> [page |-> page, limit |-> limit,
                                        total |-> Len(rows)]],
              queries |-> Queries(1, 0, issued, app_ids)]

-----------------------------------------------------------------------------
(* Requests *)

A1 == "64b000000000000000000a01"
A2 == "agent-7"
AgentIds == {A1, A2}

Ranges == {"1M", "all_time", "last_quarter"}

Faults ==
    {NoFault}
    \cup {[at |-> a, idx |-> 0, both |-> FALSE] : a \in {"apps", "issuances", "payments"}}
    \cup {[at |-> "products", idx |-> i, both |-> b] : i \in 1..MaxFault, b \in BOOLEAN}

ChartFaults == {f \in Faults : f.at \in {"none", "apps", "issuances"}}

ChartArgs == {NoArg, IsoArg(Ts(FirstYear, 1, 1, 0)), BadArg}

Request(endpoint, agent_id, range, paging, sorting, window, fault) ==
    [endpoint |-> endpoint, agent_id |-> agent_id, range |-> range,
     page |-> paging[1], limit |-> paging[2],
     sortBy |-> sorting[1], order |-> sorting[2],
     start |-> window[1], end |-> window[2], fault |-> fault]

NoRequest == Request("none", "", "", <<0, 0>>, <<"", "">>, <<NoArg, NoArg>>, NoFault)

Idle == req = NoRequest

\* GET /api/agents/{agent_id}/dashboard/stats, with the agent, the range and
\* the fault of the store drawn from the sets given
agent_stats(agents, ranges, faults) ==
    /\ Idle
    /\ \E agent_id \in agents, range \in ranges, fault \in faults :
        \E o \in {stats_outcome(agent_id, range, fault)} :
            /\ resp' = o.resp
            /\ queries' = o.queries
            /\ mongo_client' = get_mongo_client(mongo_client, constructed).client
            /\ req' = Request("stats", agent_id, range, <<0, 0>>, <<"", "">>,
                              <<NoArg, NoArg>>, fault)
            /\ all_rows' = <<>>
            /\ constructed' = get_mongo_client(mongo_client, constructed).made
            /\ UNCHANGED <<now, apps, issuances, payments, products, ret, threads>>

\* GET /api/agents/{agent_id}/dashboard/chart
agent_chart(agents, args, faults) ==
    /\ Idle
    /\ \E agent_id \in agents, start \in args, end \in args, fault \in faults :
        \E o \in {chart_outcome(agent_id, start, end, "day", fault)} :
            /\ resp' = o.resp
            /\ queries' = o.queries
            /\ mongo_client' = get_mongo_client(mongo_client, constructed).client
            /\ req' = Request("chart", agent_id, "", <<0, 0>>, <<"", "">>,
                              <<start, end>>, fault)
            /\ all_rows' = <<>>
            /\ constructed' = get_mongo_client(mongo_client, constructed).made
            /\ UNCHANGED <<now, apps, issuances, payments, products, ret, threads>>

\* GET /api/agents/{agent_id}/dashboard/policies
agent_policies(agents, ranges, faults, pagings, sortings) ==
    /\ Idle
    /\ \E agent_id \in agents, range \in ranges, fault \in faults :
        \E ranked \in {policies_rows(agent_id, range, fault)} :
            \E paging \in pagings, sorting \in sortings :
                \E o \in {policies_outcome(ranked, paging[1], paging[2],
                                           sorting[1], sorting[2])} :
                    /\ resp' = o.resp
                    /\ queries' = o.queries
                    /\ mongo_client' = get_mongo_client(mongo_client, constructed).client
                    /\ req' = Request("policies", agent_id, range, paging, sorting,
                                      <<NoArg, NoArg>>, fault)
                    /\ all_rows' = o.rows
                    /\ constructed' = get_mongo_client(mongo_client, constructed).made
                    /\ UNCHANGED <<now, apps, issuances, payments, products, ret, threads>>

\* GET /api/agents/{agent_id}/sales
agent_sales(agents, faults, pagings) ==
    /\ Idle
    /\ \E agent_id \in agents, fault \in faults, paging \in pagings :
        \E o \in {sales_outcome(agent_id, paging[1], paging[2], fault)} :
            /\ resp' = o.resp
            /\ queries' = o.queries
            /\ mongo_client' = get_mongo_client(mongo_client, constructed).client
            /\ req' = Request("sales", agent_id, "", paging, <<"", "">>,
                              <<NoArg, NoArg>>, fault)
            /\ all_rows' = <<>>
            /\ constructed' = get_mongo_client(mongo_client, constructed).made
            /\ UNCHANGED <<now, apps, issuances, payments, products, ret, threads>>

\* the response is sent; the next request can be taken
respond ==
    /\ ~Idle
    /\ req.endpoint # "_range_to_dates"
    /\ req' = NoRequest
    /\ resp' = [status |-> 0, kind |-> "none"]
    /\ queries' = NoQueries
    /\ all_rows' = <<>>
    /\ UNCHANGED <<now, apps, issuances, payments, products, mongo_client, ret,
                   constructed, threads>>

\* a direct call of _range_to_dates(range_key)
range_to_dates_call ==
    \E range_key \in RangeKeys :
        /\ ret' = _range_to_dates(range_key, now)
        /\ req' = Request("_range_to_dates", "", range_key, <<0, 0>>, <<"", "">>,
                          <<NoArg, NoArg>>, NoFault)
        /\ UNCHANGED <<now, apps, issuances, payments, products, mongo_client,
                       resp, queries, all_rows, constructed, threads>>

Pagings == ((1..MaxPage) \X (1..MaxLimit)) \cup {<<1, 10>>}
Sortings == {"sold", "revenue", "contribution", "name"} \X {"asc", "desc"}
DefaultPaging == {<<1, 10>>}
DefaultSorting == {<<"sold", "desc">>}

-----------------------------------------------------------------------------
(* Stores and initial states *)

F1 == "64b0000000000000000000f1"
F2 == "64b0000000000000000000f2"
F3 == "64b0000000000000000000f3"
AppHex == <<F1, F2, F3, "64b0000000000000000000f4">>

C1 == "64b000000000000000000c01"
C2 == "64b000000000000000000c02"
C3 == "64b000000000000000000c03"

Now0 == Ts(LastYear, 3, 15, 37800)
Recent == Ts(LastYear, 3, 1, 0)
Old == Ts(FirstYear, 6, 1, 0)

Application(hex, agentId, productId) ==
    [_id |-> Oid(hex), agentId |-> agentId, productId |-> productId]
Issuance(app, productId, createdAt, amount) ==
    [applicationId |-> Oid(app), productId |-> productId,
     createdAt |-> createdAt, amount |-> amount]
Payment(app, status, amount, createdAt) ==
    [applicationId |-> Oid(app), status |-> status, amount |-> amount,
     createdAt |-> createdAt]
Product(id, name) == [_id |-> id, name |-> name]

Status(w) == [t |-> "str", v |-> w]
MissingStatus == [t |-> "missing", v |-> <<>>]
S_Paid == Status(<<"P", "a", "i", "d">>)

\* C1 has a name; C2 has no record; C3 has a record without a name under its
\* ObjectId and a named one under its raw string
Catalog ==
    <<Product(Oid(C1), Str("Term Life")), Product(Oid(C3), None),
      Product(Str(C3), Str("Legacy Cover"))>>

SeqsUpTo(S, n) == UNION {[1..k -> S] : k \in 0..n}

Quiet ==
    /\ mongo_client = NoClient
    /\ constructed = 0
    /\ threads = [t \in Threads |-> Waiting]
    /\ req = NoRequest
    /\ resp = [status |-> 0, kind |-> "none"]
    /\ queries = NoQueries
    /\ all_rows = <<>>
    /\ ret = Returned(NoTs, NoTs)

\* stores that differ in who owns the applications, and in which form the
\* owner is stored, and in when the records were made
InitFetch ==
    /\ now = Now0
    /\ \E k \in 0..MaxApps :
         \E owner \in [1..k -> {Str(A1), Oid(A1), Str(A2)}] :
             apps = [i \in 1..k |-> Application(AppHex[i], owner[i], Oid(C1))]
    /\ issuances \in SeqsUpTo({Issuance(f, None, at, IntAmt(100)) :
                                  f \in {F1, F2}, at \in {Recent, Old}}, 1)
    /\ payments \in SeqsUpTo({Payment(f, S_Paid, IntAmt(500), at) :
                                 f \in {F1, F2}, at \in {Recent, Old}}, 1)
    /\ products = Catalog
    /\ Quiet

Next ==
    \/ agent_stats(AgentIds, Ranges, {NoFault})
    \/ agent_chart(AgentIds, ChartArgs, {NoFault})
    \/ agent_policies(AgentIds, Ranges, {NoFault}, DefaultPaging, DefaultSorting)
    \/ respond

Spec == InitFetch /\ [][Next]_vars

S_PAID == Status(W_PAID)
S_success == Status(W_success)
S_Captured == Status(<<"C", "a", "p", "t", "u", "r", "e", "d">>)
S_COMPLETED == Status(W_COMPLETED)
S_failed == Status(<<"f", "a", "i", "l", "e", "d">>)
NullStatus == [t |-> "none", v |-> <<>>]

StatusSamples ==
    {S_Paid, S_PAID, S_success, S_Captured, S_COMPLETED, S_failed,
     MissingStatus, NullStatus}

\* one application of agent A1, and payments of every kind of status
InitRevenue ==
    /\ now = Now0
    /\ apps = <<Application(F1, Str(A1), Oid(C1))>>
    /\ issuances = <<Issuance(F1, None, Recent, IntAmt(100))>>
    /\ payments \in SeqsUpTo({Payment(F1, st, IntAmt(n), Recent) :
                                 st \in StatusSamples, n \in {500, 7}}, MaxPayments)
    /\ products = Catalog
    /\ Quiet

NextRevenue == agent_stats({A1}, {"1M"}, {NoFault}) \/ respond

SpecRevenue == InitRevenue /\ [][NextRevenue]_vars

\* three applications of agent A1, of products C1, C2 and none, with
\* issuances and paid payments of the kinds given spread over them, and a
\* catalog of catalogs
Aggregated(paid, catalogs) ==
    /\ now = Now0
    /\ apps = <<Application(F1, Str(A1), Oid(C1)), Application(F2, Oid(A1), Oid(C2)),
                Application(F3, Str(A1), None)>>
    /\ issuances \in SeqsUpTo({Issuance(F1, None, Recent, IntAmt(100)),
                               Issuance(F3, None, Recent, IntAmt(100)),
                               Issuance(F3, Oid(C3), Recent, IntAmt(100))},
                              MaxIssuances)
    /\ payments \in SeqsUpTo(paid, MaxPayments)
    /\ products \in catalogs
    /\ Quiet

InitAgg ==
    Aggregated({Payment(F1, S_Paid, IntAmt(29), Recent),
                Payment(F2, S_Paid, IntAmt(21), Recent),
                Payment(F2, S_Paid, IntAmt(29), Recent),
                Payment(F3, S_Paid, IntAmt(21), Recent)},
               {Catalog})

NextRank ==
    \/ agent_stats({A1}, {"1M"}, {NoFault})
    \/ agent_policies({A1}, {"1M"}, {NoFault}, Pagings, Sortings)
    \/ respond

SpecRank == InitAgg /\ [][NextRank]_vars

NextNames ==
    \/ agent_stats({A1}, {"1M"}, Faults)
    \/ agent_policies({A1}, {"1M"}, Faults, DefaultPaging, DefaultSorting)
    \/ respond

\* the catalog also without the record C3 has under its raw string
InitNames ==
    Aggregated({Payment(F2, S_Paid, IntAmt(21), Recent),
                Payment(F3, S_Paid, IntAmt(21), Recent)},
               {Catalog, SubSeq(Catalog, 1, 2)})

SpecNames == InitNames /\ [][NextNames]_vars

\* the faults of the store's queries: the find() on one collection raises
QueryFaults == {f \in Faults : f.at \in {"none", "apps", "issuances", "payments"}}

NextFaults ==
    \/ agent_stats(AgentIds, {"1M"}, QueryFaults)
    \/ agent_chart(AgentIds, {NoArg}, ChartFaults)
    \/ agent_policies(AgentIds, {"1M"}, QueryFaults, DefaultPaging, DefaultSorting)
    \/ agent_sales(AgentIds, QueryFaults, {<<1, 50>>, <<2, 50>>})
    \/ respond

SpecFaults == InitFetch /\ [][NextFaults]_vars

\* one application of agent A2, with issuances and paid payments whose
\* amounts are numbers, numeric strings, other strings, or missing
InitAmounts ==
    /\ now = Now0
    /\ apps = <<Application(F1, Str(A2), Oid(C1))>>
    /\ issuances \in SeqsUpTo({Issuance(F1, None, Recent, a) :
                                  a \in {IntAmt(100), Amt("floatstr", 12), Amt("bad", 0)}},
                              MaxIssuances)
    /\ payments \in SeqsUpTo({Payment(F1, S_Paid, a, Recent) :
                                 a \in {IntAmt(500), Amt("intstr", 7), Amt("floatstr", 12),
                                        Amt("bad", 0), Amt("none", 0)}},
                             MaxPayments)
    /\ products = Catalog
    /\ Quiet

NextAmounts ==
    \/ agent_stats({A2}, {"1M"}, {NoFault})
    \/ agent_chart({A2}, {NoArg}, {NoFault})
    \/ agent_policies({A2}, {"1M"}, {NoFault}, DefaultPaging, DefaultSorting)
    \/ respond

SpecAmounts == InitAmounts /\ [][NextAmounts]_vars

\* an agent without applications
A3 == "agent-0"

\* the ends of the window of '1M' at Now0, and the seconds next to them
AtStart == Ts(LastYear, 2, 15, 37800)
BeforeStart == Ts(LastYear, 2, 15, 37799)
AtEnd == Now0
AfterEnd == Ts(LastYear, 3, 15, 37801)

\* applications of agents A1 (under both forms of its id) and A2, with
\* issuances and payments of A1's and A2's applications at and around the
\* ends of the window
InitScope ==
    /\ now = Now0
    /\ apps = <<Application(F1, Str(A1), Oid(C1)), Application(F2, Oid(A1), Oid(C2)),
                Application(F3, Str(A2), Oid(C1))>>
    /\ issuances \in SeqsUpTo({Issuance(f, None, at, IntAmt(100)) :
                                  f \in {F1, F3},
                                  at \in {BeforeStart, AtStart, AtEnd, AfterEnd}},
                              MaxIssuances)
    /\ payments \in SeqsUpTo({Payment(f, S_Paid, IntAmt(500), at) :
                                 f \in {F2, F3},
                                 at \in {BeforeStart, AtStart, AtEnd, AfterEnd}}, 1)
    /\ products = Catalog
    /\ Quiet

NextScope ==
    \/ agent_stats({A1, A2, A3}, {"1M"}, {NoFault})
    \/ agent_policies({A1, A2, A3}, {"1M"}, {NoFault}, DefaultPaging, DefaultSorting)
    \/ respond

SpecScope == InitScope /\ [][NextScope]_vars

\* issuances with and without a product of their own, and payments with and
\* without a qualifying status, also of an application without issuance
InitBuckets ==
    Aggregated({Payment(F1, S_Paid, IntAmt(500), Recent),
                Payment(F2, S_Paid, IntAmt(500), Recent),
                Payment(F2, S_failed, IntAmt(500), Recent),
                Payment(F3, S_PAID, IntAmt(7), Recent),
                Payment(F3, MissingStatus, IntAmt(7), Recent)},
               {Catalog})

NextBuckets ==
    \/ agent_stats({A1}, {"1M"}, {NoFault})
    \/ agent_policies({A1}, {"1M"}, {NoFault}, DefaultPaging, DefaultSorting)
    \/ respond

SpecBuckets == InitBuckets /\ [][NextBuckets]_vars

\* a fresh process whose pool threads take requests at any time
InitThreads ==
    /\ now = Now0
    /\ apps = <<>>
    /\ issuances = <<>>
    /\ payments = <<>>
    /\ products = Catalog
    /\ Quiet

NextThreads ==
    \E t \in Threads :
        \/ begin_request(t)
        \/ test_none(t)
        \/ construct_client(t)
        \/ store_global(t)
        \/ return_client(t)
        \/ end_request(t)

SpecThreads == InitThreads /\ [][NextThreads]_vars

\* the clock at any second sampled of any day of the years modelled
InitRange ==
    /\ \E y \in FirstYear..LastYear, m \in 1..12 :
         \E d \in 1..DaysInMonth(y, m), s \in {0, 37800, 86399} :
             now = Ts(y, m, d, s)
    /\ apps = <<>> /\ issuances = <<>> /\ payments = <<>> /\ products = <<>>
    /\ Quiet

SpecRange == InitRange /\ [][range_to_dates_call]_vars

-----------------------------------------------------------------------------
(* Properties *)

Handled == req.endpoint \in {"stats", "chart", "policies"}

\* the application lookup of the request was issued and returned
LookedUp == Handled /\ queries.policyapplications = 1 /\ req.fault.at # "apps"

\* C3: when the application lookup returns no applications, the stats, chart
\* and policies endpoints answer 200 with a zero/empty result (stats:
\* policiesIssued 0, revenue 0, no best seller, no topPolicies; chart: an
\* empty series; policies: no data, total 0) and issue no query on the
\* issuance and payment collections.
C3_NoApplicationsNoQueries ==
    (LookedUp /\ queries.app_ids = <<>>) =>
        /\ queries.policyissuances = 0
        /\ queries.paymentorders = 0
        /\ resp.status = 200
        /\ req.endpoint = "stats" =>
              /\ resp.policiesIssued = 0
              /\ resp.revenue = 0
              /\ resp.bestSellingPolicy = <<>>
              /\ resp.topPolicies = <<>>
        /\ req.endpoint = "chart" => resp.series = <<>> /\ resp.meta.points = 0
        /\ req.endpoint = "policies" => resp.data = <<>> /\ resp.pagination.total = 0

\* the stats endpoint has answered an agent who owns none of the applications
\* of a store that holds applications, issuances and payments
C3_Witness ==
    /\ req.endpoint = "stats"
    /\ LookedUp
    /\ queries.app_ids = <<>>
    /\ apps # <<>> /\ issuances # <<>> /\ payments # <<>>
    /\ resp.status = 200

PreviousMonth(t) ==
    IF t.month = 1 THEN [year |-> t.year - 1, month |-> 12]
    ELSE [year |-> t.year, month |-> t.month - 1]

\* C5: _range_to_dates('last_month') returns the first day of the previous
\* calendar month at 00:00:00 and its last day at 23:59:59, whatever the
\* time of day.
C5_LastMonthIsTheWholeMonth ==
    (req.endpoint = "_range_to_dates" /\ req.range = "last_month") =>
        LET pm == PreviousMonth(now)
        IN  ret = Returned(Ts(pm.year, pm.month, 1, 0),
                           Ts(pm.year, pm.month, DaysInMonth(pm.year, pm.month), 86399))

QuarterStart(t) == Ts(t.year, 3 * ((t.month - 1) \div 3) + 1, 1, 0)

PreviousQuarterStart(t) ==
    IF QuarterStart(t).month = 1 THEN Ts(t.year - 1, 10, 1, 0)
    ELSE Ts(t.year, QuarterStart(t).month - 3, 1, 0)

\* C6: in every month of the year, _range_to_dates('last_quarter') returns
\* without error the first day of the calendar quarter before the current one
\* (1 October of the previous year in January to March), and 'this_quarter'
\* the first day of the current quarter.
C6_QuarterStarts ==
    /\ (req.endpoint = "_range_to_dates" /\ req.range = "last_quarter") =>
          ret.exc = "" /\ ret.start = PreviousQuarterStart(now)
    /\ (req.endpoint = "_range_to_dates" /\ req.range = "this_quarter") =>
          ret.exc = "" /\ ret.start = QuarterStart(now)

\* the applications of an agent: agentId is the agent id as a raw string or
\* as the ObjectId decoded from it
OwnedBy(agent_id) ==
    {apps[i]._id : i \in {j \in 1..Len(apps) :
        apps[j].agentId = Str(agent_id) \/ apps[j].agentId = Oid(agent_id)}}

\* C7: stats, chart and policies each select every application whose agentId
\* equals the agent id as a raw string or as the ObjectId decoded from it, so
\* all three work from the same applications.
C7_SameApplicationsEverywhere ==
    LookedUp =>
        {queries.app_ids[i] : i \in 1..Len(queries.app_ids)} = OwnedBy(req.agent_id)

Answered(endpoint) == req.endpoint = endpoint /\ resp.status = 200

\* the applications, the window and the records the request works from
Found == FindAppsEither(req.agent_id)
Window == _range_to_dates(req.range, now)
InScope(r) ==
    /\ InSeq(r.applicationId, queries.app_ids)
    /\ TsLE(Window.start, r.createdAt)
    /\ TsLE(r.createdAt, Window.end)

\* w is word but for the case of its letters
SameIgnoringCase(w, word) ==
    /\ Len(w) = Len(word)
    /\ \A i \in 1..Len(word) :
          \/ w[i] = word[i]
          \/ \E k \in 1..Len(LowerCase) : LowerCase[k] = word[i] /\ UpperCase[k] = w[i]

\* the payment has a status, and it is paid, success, captured or completed
\* in some casing
Qualifies(p) ==
    /\ p.status.t = "str"
    /\ \E word \in {W_paid, W_success, W_captured, W_completed} :
          SameIgnoringCase(p.status.v, word)

QualifyingPayments == SelectSeq(payments, LAMBDA p : InScope(p) /\ Qualifies(p))

RECURSIVE SumOfAmounts(_)
SumOfAmounts(pays) ==
    IF pays = <<>> THEN 0 ELSE Head(pays).amount.n + SumOfAmounts(Tail(pays))

\* the summed qualifying payment amount of the bucket of product pid
BucketSum(pid) ==
    SumOfAmounts(SelectSeq(QualifyingPayments, LAMBDA p : PaymentPid(Found, p) = pid))

\* the rows a 200 answer of stats or policies shows
ShownRows == IF req.endpoint = "stats" THEN resp.topPolicies ELSE resp.data

\* the bucket keys in the order the records give them: issuances first, then
\* the qualifying payments
BucketKeys ==
    LET iss == SelectSeq(issuances, InScope)
    IN  [i \in 1..Len(iss) |-> IssuancePid(Found, iss[i])]
        \o [i \in 1..Len(QualifyingPayments) |-> PaymentPid(Found, QualifyingPayments[i])]

\* a sequence without the repetitions of its elements
RECURSIVE Distinct(_)
Distinct(seq) ==
    IF seq = <<>> THEN <<>>
    ELSE LET before == Distinct(SubSeq(seq, 1, Len(seq) - 1))
         IN  IF InSeq(seq[Len(seq)], before) THEN before
             ELSE Append(before, seq[Len(seq)])

\* the buckets' keys in the order the buckets are created
CreationOrder == Distinct(BucketKeys)

\* the position of pid in a creation order
Rank(order, pid) == CHOOSE i \in 1..Len(order) : order[i] = pid

\* C1: the revenue of a stats answer over payments with integer amounts is
\* 100 times the sum of the amounts of exactly the fetched payments whose
\* status is paid, success, captured or completed in any casing; a payment
\* with another status, or none, adds nothing.
C1_RevenueOfQualifyingPayments ==
    (Answered("stats") /\ \A i \in 1..Len(payments) : payments[i].amount.k = "int") =>
        resp.revenue = 100 * SumOfAmounts(QualifyingPayments)

\* the stats answer over one "Paid" payment of 500 and one failed payment of
\* 7 reports revenue 50000
C1_Witness ==
    /\ Answered("stats")
    /\ payments = <<Payment(F1, S_Paid, IntAmt(500), Recent),
                    Payment(F1, S_failed, IntAmt(7), Recent)>>
    /\ resp.revenue = 50000

\* C2: in a stats answer the revenue of every topPolicies row, the first one
\* included, and the revenue of bestSellingPolicy are 100 times the summed
\* qualifying payment amount of the row's bucket.
C2_EveryRevenueTimes100Once ==
    Answered("stats") =>
        /\ \A i \in 1..Len(resp.topPolicies) :
              resp.topPolicies[i].revenue = 100 * BucketSum(resp.topPolicies[i].policyId)
        /\ \A i \in 1..Len(resp.bestSellingPolicy) :
              resp.bestSellingPolicy[i].revenue
                  = 100 * BucketSum(resp.bestSellingPolicy[i].policyId)

RECURSIVE SumOfContributions(_)
SumOfContributions(rows) ==
    IF rows = <<>> THEN 0 ELSE Head(rows).contribution + SumOfContributions(Tail(rows))

\* C4: in the rows of a stats or policies answer, contribution is
\* floor(revenue / totalRevenue * 100) of the row's bucket when the total
\* revenue is positive and 0 when it is 0, and the contributions sum to at
\* most 100.
C4_ContributionIsFloorOfShare ==
    (Answered("stats") \/ Answered("policies")) =>
        LET total == SumOfAmounts(QualifyingPayments)
        IN  /\ \A i \in 1..Len(ShownRows) :
                  ShownRows[i].contribution =
                      IF total = 0 THEN 0
                      ELSE (100 * BucketSum(ShownRows[i].policyId)) \div total
            /\ SumOfContributions(ShownRows) <= 100

\* C8: the page of a policies answer is the rows at 0-based positions
\* (page-1)*limit up to but excluding min(page*limit, total) of the ordered
\* rows, empty when (page-1)*limit >= total, and pagination.total is the
\* number of all rows whatever the page.
C8_PageIsSliceOfOrderedRows ==
    Answered("policies") =>
        LET total == Len(all_rows)
            lo == (req.page - 1) * req.limit
            hi == IF req.page * req.limit <= total THEN req.page * req.limit ELSE total
        IN  /\ resp.pagination.total = total
            /\ Len(resp.data) = IF lo >= total THEN 0 ELSE hi - lo
            /\ \A k \in 1..Len(resp.data) : resp.data[k] = all_rows[lo + k]

\* page 2 of limit 2 over three rows holds the third row alone
C8_Witness ==
    /\ Answered("policies")
    /\ req.page = 2 /\ req.limit = 2
    /\ resp.pagination.total = 3
    /\ Len(resp.data) = 1

\* rows are ordered by key, and rows of equal key by bucket creation
InOrder(rows, key, descending, order) ==
    \A i, j \in 1..Len(rows) :
        i < j =>
            /\ IF descending THEN rows[i][key] >= rows[j][key]
               ELSE rows[i][key] <= rows[j][key]
            /\ rows[i][key] = rows[j][key] =>
                  Rank(order, rows[i].policyId) < Rank(order, rows[j].policyId)

\* C9: topPolicies of a stats answer is ordered by sold descending, the rows
\* of a policies answer by sortBy (sold, revenue or contribution) in the
\* order asked; rows of equal key keep their bucket creation order, and
\* under an unrecognized sortBy all rows do.
C9_StableSortOnTheKey ==
    \A order \in {CreationOrder} :
        /\ Answered("stats") => InOrder(resp.topPolicies, "sold", TRUE, order)
        /\ Answered("policies") =>
              IF req.sortBy \in {"sold", "revenue", "contribution"}
              THEN InOrder(resp.data, req.sortBy, req.order = "desc", order)
              ELSE \A i, j \in 1..Len(resp.data) :
                      i < j => Rank(order, resp.data[i].policyId)
                                   < Rank(order, resp.data[j].policyId)

\* three rows sorted by sold ascending: the first bucket created comes last,
\* and the two that tie before it in creation order
C9_Witness ==
    /\ Answered("policies")
    /\ req.sortBy = "sold" /\ req.order = "asc"
    /\ Len(resp.data) = 3
    /\ resp.data[1].sold = resp.data[2].sold
    /\ Rank(CreationOrder, resp.data[3].policyId) = 1

\* the names of the catalog's records of product pid, under either form of id
NamesOf(pid) ==
    {products[i].name.v : i \in {j \in 1..Len(products) :
        products[j]._id.v = pid /\ Truthy(products[j].name)}}

\* the lookup of a bucket raised, and so did its retry by the raw id
LookupRaised ==
    /\ req.fault.at = "products"
    /\ req.fault.both
    /\ req.fault.idx \in 1..Len(CreationOrder)
    /\ CreationOrder[req.fault.idx] # "unknown"

\* C10: whatever the catalog lookups do, stats and policies answer 200 and
\* every row has a name: when the lookup of a bucket raises a store error
\* (past its retry by the raw id) every row's policyName is its own id;
\* otherwise the row of "unknown" is named
\* "Unknown", a row whose product has no catalog record, or none with a
\* name, is named by its id, and any other row by its id or a name the
\* catalog has for it.
C10_EveryBucketIsNamed ==
    (req.endpoint \in {"stats", "policies"} /\ req.fault.at \in {"none", "products"}) =>
        /\ resp.status = 200
        /\ \A raised \in {LookupRaised}, i \in 1..Len(ShownRows) :
              LET pid == ShownRows[i].policyId
                  name == ShownRows[i].policyName
              IN  /\ name # ""
                  /\ IF raised THEN name = pid
                     ELSE IF pid = "unknown" THEN name = "Unknown"
                     ELSE name \in {pid} \cup NamesOf(pid)

\* a stats answer after the lookup of the first bucket and its retry raised:
\* the rows include "unknown", named "unknown", and a product the catalog
\* has a name for, named by its id
C10_Witness ==
    /\ Answered("stats")
    /\ LookupRaised
    /\ \E i \in 1..Len(resp.topPolicies) :
          resp.topPolicies[i].policyId = "unknown"
          /\ resp.topPolicies[i].policyName = "unknown"
    /\ \E i \in 1..Len(resp.topPolicies) :
          resp.topPolicies[i].policyId = C1 /\ resp.topPolicies[i].policyName = C1


RECURSIVE SumOfSales(_)
SumOfSales(series) ==
    IF series = <<>> THEN 0 ELSE Head(series).sales + SumOfSales(Tail(series))

\* C11: a chart request with an explicit start or end that is not an ISO-8601
\* timestamp ends in a client error (4xx), not in a server error; when both
\* are valid they are the query window as given: the series counts exactly
\* the issuances of the selected applications made within [start, end].
C11_MalformedDateIsClientError ==
    req.endpoint = "chart" =>
        /\ (req.start = BadArg \/ req.end = BadArg) => resp.status \in 400..499
        /\ (req.start.t = "iso" /\ req.end.t = "iso") =>
              /\ resp.status = 200
              /\ SumOfSales(resp.series) =
                    Len(SelectSeq(issuances, LAMBDA r :
                            /\ InSeq(r.applicationId, queries.app_ids)
                            /\ TsLE(req.start.ts, r.createdAt)
                            /\ TsLE(r.createdAt, req.end.ts)))

\* the request issued the query that the fault makes raise
FaultHit ==
    \/ req.fault.at = "apps" /\ queries.policyapplications = 1
    \/ req.fault.at = "issuances" /\ queries.policyissuances = 1
    \/ req.fault.at = "payments" /\ queries.paymentorders = 1

\* C12: when a query of a stats, chart, policies or sales request raises a
\* connectivity error, the handler answers 500 with the body
\* {"error": message}: the exception is not propagated, and the answer is
\* not a zero/empty success.
C12_StoreErrorIsAnErrorResponse ==
    (req.endpoint \in {"stats", "chart", "policies", "sales"} /\ FaultHit) =>
        /\ resp.status = 500
        /\ "error" \in DOMAIN resp
        /\ "exc" \notin DOMAIN resp

\* the amount is an integer, or nothing a number parses from
IntOrUnparsable(a) == a.k \in {"int", "bad", "none"}

\* the sum of the integer amounts of records; a record without one adds 0
RECURSIVE SumOfIntegers(_)
SumOfIntegers(records) ==
    IF records = <<>> THEN 0
    ELSE (IF Head(records).amount.k = "int" THEN Head(records).amount.n ELSE 0)
         + SumOfIntegers(Tail(records))

RECURSIVE SumOfRevenues(_)
SumOfRevenues(rows) ==
    IF rows = <<>> THEN 0 ELSE Head(rows).revenue + SumOfRevenues(Tail(rows))

\* the issuances a chart request without start and end works from
ChartIssuances ==
    SelectSeq(issuances, LAMBDA r :
        /\ InSeq(r.applicationId, queries.app_ids)
        /\ TsLE(_range_to_dates("1M", now).start, r.createdAt)
        /\ TsLE(r.createdAt, _range_to_dates("1M", now).end))

\* C13: over records whose amounts are integers or cannot be parsed as a
\* number, stats, policies and chart answer 200 and a record with an
\* unparsable amount adds 0: the stats revenue and the policies rows'
\* revenues sum the integer amounts of the qualifying payments (times 100),
\* the chart's series the integer amounts of the issuances.
C13_MalformedAmountCountsZero ==
    /\ (req.endpoint \in {"stats", "policies"} /\ req.fault.at = "none"
            /\ \A i \in 1..Len(payments) : IntOrUnparsable(payments[i].amount)) =>
          /\ resp.status = 200
          /\ req.endpoint = "stats" =>
                resp.revenue = 100 * SumOfIntegers(QualifyingPayments)
          /\ req.endpoint = "policies" =>
                SumOfRevenues(all_rows) = 100 * SumOfIntegers(QualifyingPayments)
    /\ (req.endpoint = "chart" /\ req.fault.at = "none"
            /\ req.start = NoArg /\ req.end = NoArg
            /\ \A i \in 1..Len(issuances) : IntOrUnparsable(issuances[i].amount)) =>
          /\ resp.status = 200
          /\ SumOfRevenues(resp.series) = SumOfIntegers(ChartIssuances)

\* C14: for a range key other than 1D, 1W, 1M, last_month, this_quarter,
\* last_quarter, this_fy and last_fy ('all_time' and arbitrary strings
\* included) _range_to_dates returns, without error, the minimum timestamp
\* as start and now as end; for every key but last_month the end is now and
\* start <= end.
C14_UnknownKeyIsAllTime ==
    req.endpoint = "_range_to_dates" =>
        /\ req.range \notin {"1D", "1W", "1M", "last_month", "this_quarter",
                             "last_quarter", "this_fy", "last_fy"} =>
              ret = Returned(TimestampMin, now)
        /\ req.range # "last_month" =>
              ret.exc = "" /\ ret.end = now /\ TsLE(ret.start, ret.end)

\* the record is of an application of the request's agent and was made
\* within [start, end], both ends included
OwnAndInWindow(r) ==
    /\ r.applicationId \in OwnedBy(req.agent_id)
    /\ TsLE(Window.start, r.createdAt)
    /\ TsLE(r.createdAt, Window.end)

OwnQualifying(p) == OwnAndInWindow(p) /\ Qualifies(p)

RECURSIVE SumOfSold(_)
SumOfSold(rows) == IF rows = <<>> THEN 0 ELSE Head(rows).sold + SumOfSold(Tail(rows))

\* C15: what stats and policies count is the issuances (policiesIssued, sold)
\* and the qualifying payments (revenue) of the applications selected for the
\* agent that were made within [start, end] inclusive, and nothing else: no
\* record of another agent's application, also for an agent without
\* applications.
C15_OnlyOwnRecordsInWindow ==
    /\ Answered("stats") =>
          /\ resp.policiesIssued = Len(SelectSeq(issuances, OwnAndInWindow))
          /\ resp.revenue = 100 * SumOfAmounts(SelectSeq(payments, OwnQualifying))
    /\ Answered("policies") =>
          /\ SumOfSold(all_rows) = Len(SelectSeq(issuances, OwnAndInWindow))
          /\ SumOfRevenues(all_rows) = 100 * SumOfAmounts(SelectSeq(payments, OwnQualifying))

\* stats for A1 over an issuance of its own made at the very end of the
\* window and one of A2's application: one policy issued
C15_Witness ==
    /\ Answered("stats")
    /\ req.agent_id = A1
    /\ issuances = <<Issuance(F1, None, AtEnd, IntAmt(100)),
                     Issuance(F3, None, AtStart, IntAmt(100))>>
    /\ resp.policiesIssued = 1

\* C16: in a stats answer the total revenue, before the scaling by 100, is
\* the sum of the revenues of the buckets, whether the amounts are integers,
\* numeric strings or float strings: each payment adds the same parsed amount
\* to the total and to its bucket.
C16_TotalIsSumOfBuckets ==
    Answered("stats") =>
        resp.revenue = 100 * SumRevenue(BucketsOf(Found, SelectSeq(issuances, InScope),
                                                  SelectSeq(payments, InScope)))

\* C17: however the concurrent requests that call get_mongo_client
\* interleave, the process constructs the client at most once and every
\* request is handed the same client.
C17_OneClientPerProcess ==
    /\ constructed <= 1
    /\ \A t, u \in Threads :
           threads[t].pc = "returned" /\ threads[u].pc = "returned" =>
               threads[t].handle = threads[u].handle

\* the productId of the application the record belongs to, None without one
ParentProduct(r) ==
    LET parents == {i \in 1..Len(apps) : apps[i]._id.v = r.applicationId.v}
    IN  IF parents = {} THEN None ELSE apps[CHOOSE i \in parents : TRUE].productId

\* the string of the first of the values that is there, else "unknown"
FirstOf(values) ==
    LET there == {i \in 1..Len(values) : values[i].t # "none"}
    IN  IF there = {} THEN "unknown"
        ELSE values[CHOOSE i \in there : \A j \in there : i <= j].v

IssuanceKeys ==
    {FirstOf(<<ins.productId, ParentProduct(ins)>>) :
        ins \in {issuances[i] : i \in {j \in 1..Len(issuances) : InScope(issuances[j])}}}

QualifyingKeys ==
    {FirstOf(<<ParentProduct(QualifyingPayments[i])>>) : i \in 1..Len(QualifyingPayments)}

\* the rows of all the buckets of the answer
BucketRows == IF req.endpoint = "stats" THEN resp.topPolicies ELSE all_rows

\* C18: in stats and policies the bucket keys are exactly the keys of the
\* fetched issuances (the issuance's own productId, else its application's,
\* else "unknown") and of the payments with a qualifying status (their
\* application's productId or "unknown"); a payment without a qualifying
\* status makes no bucket, and every bucket with sold = 0 has a qualifying
\* payment.
C18_BucketKeys ==
    (Answered("stats") \/ Answered("policies")) =>
        /\ {BucketRows[i].policyId : i \in 1..Len(BucketRows)}
              = IssuanceKeys \cup QualifyingKeys
        /\ \A i \in 1..Len(BucketRows) :
              BucketRows[i].sold = 0 => BucketRows[i].policyId \in QualifyingKeys

\* an issuance keyed by its own product, a paid payment of an application
\* without issuance and a failed payment of a third application: two buckets
C18_Witness ==
    /\ Answered("stats")
    /\ issuances = <<Issuance(F3, Oid(C3), Recent, IntAmt(100))>>
    /\ payments = <<Payment(F2, S_failed, IntAmt(500), Recent),
                    Payment(F1, S_Paid, IntAmt(500), Recent)>>
    /\ {resp.topPolicies[i].policyId : i \in 1..Len(resp.topPolicies)} = {C3, C1}

\* C19: in a stats answer policiesIssued is the number of issuances fetched
\* for the agent in the window and the sum of sold over all the topPolicies
\* rows, whatever the number, the statuses and the amounts of the payments.
C19_IssuedIsSumOfSold ==
    Answered("stats") =>
        /\ resp.policiesIssued = Len(SelectSeq(issuances, OwnAndInWindow))
        /\ resp.policiesIssued = SumOfSold(resp.topPolicies)

\* two issuances of one product counted beside a failed and a paid payment
C19_Witness ==
    /\ Answered("stats")
    /\ issuances = <<Issuance(F1, None, Recent, IntAmt(100)),
                     Issuance(F1, None, Recent, IntAmt(100))>>
    /\ payments = <<Payment(F2, S_failed, IntAmt(500), Recent),
                    Payment(F3, S_PAID, IntAmt(7), Recent)>>
    /\ resp.policiesIssued = 2
    /\ Len(resp.topPolicies) = 2

=============================================================================
